---- MODULE Spec2Model ----
(***************************************************************************)
(* A model of the Multi-Task NLP desktop application, ModernNLPApp, as it  *)
(* is defined twice in the repository: src/modern_nlp_app.py and           *)
(* src/nlp_project.py.  Both definitions are run side by side on the same  *)
(* user input, the same model-load outcomes and the same pipeline          *)
(* outcomes: app[a] is the state of the application object of file a.      *)
(*                                                                         *)
(* Text is a sequence of one-character strings, so that strip(), lower()   *)
(* and the substring test are computed and not assumed.  What a widget     *)
(* displays is a sequence of strings as well: the literal pieces of the    *)
(* f-strings are one element each, an interpolated text or number is one   *)
(* element per character.                                                  *)
(***************************************************************************)
EXTENDS Integers, Sequences, FiniteSets, TLC

VARIABLES app, last

vars == <<app, last>>

Apps == {"modern_nlp_app", "nlp_project"}

\* ------------------------------------------------------------------ bounds

\* The texts of the classifier's specification are made of at most MaxWords
\* words of Words.
MaxWords == 3
\* The NER pipeline returns at most MaxEntities entities.
MaxEntities == 1
\* The masked-LM pipeline returns at most MaxPredictions predictions.
MaxPredictions == 1

\* ------------------------------------------------------------- str methods

Whitespace == {" ", "\t", "\n"}

UpperCase == <<"A", "B", "C", "D", "E", "F", "G", "H", "I", "J", "K", "L", "M",
               "N", "O", "P", "Q", "R", "S", "T", "U", "V", "W", "X", "Y", "Z">>

LowerCase == <<"a", "b", "c", "d", "e", "f", "g", "h", "i", "j", "k", "l", "m",
               "n", "o", "p", "q", "r", "s", "t", "u", "v", "w", "x", "y", "z">>

\* The lower-case letter of every upper-case letter.
LowerOf ==
    [c \in {UpperCase[i] : i \in 1..Len(UpperCase)} |->
        LowerCase[CHOOSE i \in 1..Len(UpperCase) : UpperCase[i] = c]]

\* str.lower() on one character.
LowerChar(c) == IF c \in DOMAIN LowerOf THEN LowerOf[c] ELSE c

\* text.lower()
lower(text) == [i \in 1..Len(text) |-> LowerChar(text[i])]

RECURSIVE lstrip(_)
lstrip(text) ==
    IF text # <<>> /\ Head(text) \in Whitespace THEN lstrip(Tail(text)) ELSE text

RECURSIVE rstrip(_)
rstrip(text) ==
    IF text # <<>> /\ text[Len(text)] \in Whitespace
    THEN rstrip(SubSeq(text, 1, Len(text) - 1))
    ELSE text

\* text.strip()
strip(text) == rstrip(lstrip(text))

\* Python's `sub in text` on strings.
In(sub, text) ==
    \E i \in 0..(Len(text) - Len(sub)) : SubSeq(text, i + 1, i + Len(sub)) = sub

\* sep.join(items)
RECURSIVE join(_, _)
join(sep, items) ==
    IF items = <<>> THEN <<>>
    ELSE IF Len(items) = 1 THEN items[1]
    ELSE items[1] \o sep \o join(sep, Tail(items))

Digits == <<"0", "1", "2", "3", "4", "5", "6", "7", "8", "9">>

\* str(n) of a natural number, as f"{n}" interpolates it.
RECURSIVE str(_)
str(n) == IF n < 10 THEN <<Digits[n + 1]>> ELSE str(n \div 10) \o <<Digits[(n % 10) + 1]>>

\* f"{x:.2f}" of the fraction x = num/den, 0 <= x: the nearest hundredth.
Format2f(x) ==
    LET h == (200 * x.num + x.den) \div (2 * x.den)
    IN  str(h \div 100) \o <<".", Digits[((h \div 10) % 10) + 1], Digits[(h % 10) + 1]>>

\* f"{x:.3f}" of a score given in ten-thousandths: the nearest thousandth.
Format3f(score) ==
    LET t == (score + 5) \div 10
    IN  str(t \div 1000)
        \o <<".", Digits[((t \div 100) % 10) + 1], Digits[((t \div 10) % 10) + 1],
             Digits[(t % 10) + 1]>>

\* ------------------------------------------------------------ tk widgets

\* widget.get(1.0, tk.END) of an input Text widget in which the user typed
\* raw: Tk returns the content followed by the final newline of the widget.
get(raw) == raw \o <<"\n">>

\* tk.Text.config(state=...)
config_state(widget, state) == [widget EXCEPT !.state = state]

\* tk.Text.delete(1.0, tk.END): a disabled Text widget ignores it.
delete_all(widget) ==
    IF widget.state = "normal" THEN [widget EXCEPT !.text = <<>>] ELSE widget

\* tk.Text.insert(tk.END, content): a disabled Text widget ignores it.
insert_end(widget, content) ==
    IF widget.state = "normal" THEN [widget EXCEPT !.text = @ \o content] ELSE widget

\* Mutant of update_results: the delete is missing.
update_results_no_delete(text_widget, content) ==
    config_state(insert_end(config_state(text_widget, "normal"), content), "disabled")

update_results(text_widget, content) ==
    config_state(
        insert_end(delete_all(config_state(text_widget, "normal")), content),
        "disabled")

\* messagebox.showwarning / showerror / showinfo
Dialog(kind, title, message, detail) ==
    [kind |-> kind, title |-> title, message |-> message, detail |-> detail]

show(s, dialog) == [s EXCEPT !.dialogs = Append(@, dialog)]

\* A handler starts: what the previous handler showed, called and raised is
\* no longer on record.
begin(s) == [s EXCEPT !.dialogs = <<>>, !.calls = <<>>, !.raised = "none"]

\* ---------------------------------------------------- classify_environment

keywords ==
    << <<"c", "l", "i", "m", "a", "t", "e">>,
       <<"p", "o", "l", "l", "u", "t", "i", "o", "n">>,
       <<"e", "a", "r", "t", "h">>,
       <<"g", "l", "o", "b", "a", "l", " ", "w", "a", "r", "m", "i", "n", "g">>,
       <<"d", "e", "f", "o", "r", "e", "s", "t", "a", "t", "i", "o", "n">>,
       <<"r", "e", "c", "y", "c", "l", "e">>,
       <<"e", "n", "v", "i", "r", "o", "n", "m", "e", "n", "t">>,
       <<"s", "u", "s", "t", "a", "i", "n", "a", "b", "i", "l", "i", "t", "y">>,
       <<"c", "a", "r", "b", "o", "n">>,
       <<"e", "m", "i", "s", "s", "i", "o", "n", "s">>,
       <<"r", "e", "n", "e", "w", "a", "b", "l", "e">>,
       <<"b", "i", "o", "d", "i", "v", "e", "r", "s", "i", "t", "y">> >>

\* sum(1 for kw in keywords[i..] if kw in lowered), lowered being text.lower()
RECURSIVE SumFrom(_, _)
SumFrom(i, lowered) ==
    IF i > Len(keywords) THEN 0
    ELSE (IF In(keywords[i], lowered) THEN 1 ELSE 0) + SumFrom(i + 1, lowered)

\* Mutant of score: every occurrence of a term counts, not every term.
RECURSIVE OccurrencesFrom(_, _)
OccurrencesFrom(i, lowered) ==
    IF i > Len(keywords) THEN 0
    ELSE Cardinality({k \in 0..(Len(lowered) - Len(keywords[i])) :
                         SubSeq(lowered, k + 1, k + Len(keywords[i])) = keywords[i]})
         + OccurrencesFrom(i + 1, lowered)

score_occurrences(text) == OccurrencesFrom(1, lower(text))

\* Mutant of score: the text is not lower-cased.
score_case_sensitive(text) == SumFrom(1, text)

\* score = sum(1 for kw in keywords if kw in text.lower())
score(text) == SumFrom(1, lower(text))

\* Mutant of confidence: the min(..., 1.0) is missing.
confidence_unclamped(text) == [num |-> score(text), den |-> 3]

\* confidence = min(score / 3, 1.0), as a fraction
confidence(text) ==
    LET n == score(text)
    IN  IF n < 3 THEN [num |-> n, den |-> 3] ELSE [num |-> 1, den |-> 1]

\* Mutant of detected: the matched keywords are listed last to first.
detected_reversed(text) ==
    LET lowered == lower(text)
        found == SelectSeq(keywords, LAMBDA kw : In(kw, lowered))
    IN  [i \in 1..Len(found) |-> found[Len(found) + 1 - i]]

\* [kw for kw in keywords if kw in text.lower()]
detected(text) ==
    LET lowered == lower(text)
    IN  SelectSeq(keywords, LAMBDA kw : In(kw, lowered))

\* Mutant of classification: the negative case shows confidence, not
\* 1 - confidence.
classification_same_confidence(text) ==
    LET n == score(text)
        c == confidence(text)
    IN  IF n > 0
        THEN <<"Classification: ", "Environment-related", "\n", "Confidence: ">>
             \o Format2f(c)
             \o <<"\n", "Keywords found: ">> \o str(n) \o <<"\n", "\n">>
             \o <<"Environmental keywords detected: ">>
             \o join(<<", ">>, detected(text))
        ELSE <<"Classification: ", "Not Environment-related", "\n", "Confidence: ">>
             \o Format2f(c)
             \o <<"\n", "\n", "No environmental keywords detected.">>

\* The result string classify_environment builds for the stripped text.
classification(text) ==
    LET n == score(text)
        c == confidence(text)
    IN  IF n > 0
        THEN <<"Classification: ", "Environment-related", "\n", "Confidence: ">>
             \o Format2f(c)
             \o <<"\n", "Keywords found: ">> \o str(n) \o <<"\n", "\n">>
             \o <<"Environmental keywords detected: ">>
             \o join(<<", ">>, detected(text))
        ELSE <<"Classification: ", "Not Environment-related", "\n", "Confidence: ">>
             \o Format2f([num |-> c.den - c.num, den |-> c.den])
             \o <<"\n", "\n", "No environmental keywords detected.">>

\* Mutant of classify_environment: the handler depends on the handle of the
\* classification pipeline, and fails when it was never assigned.
classify_environment_uses_handle(s, raw) ==
    LET text == strip(get(raw))
        s0 == begin(s)
    IN  IF text = <<>>
        THEN show(s0, Dialog("warning", "Warning",
                             "Please enter some text to analyze.", "none"))
        ELSE IF s0.env_classifier = "unset"
        THEN show(s0, Dialog("error", "Error", "Classification failed: ", "AttributeError"))
        ELSE [s0 EXCEPT !.env_results = update_results(@, classification(text))]

\* The handler of the Analyze Text button, on the application state s, with
\* raw typed in env_text_input.
classify_environment(s, raw) ==
    LET text == strip(get(raw))
        s0 == begin(s)
    IN  IF text = <<>>
        THEN show(s0, Dialog("warning", "Warning",
                             "Please enter some text to analyze.", "none"))
        ELSE [s0 EXCEPT !.env_results = update_results(@, classification(text))]

\* --------------------------------------------------------- init_models

\* A model handle of the application object: the attribute was never
\* assigned ("unset", reading it raises AttributeError), holds a loaded
\* pipeline, or holds None.
Handles == {"unset", "pipeline", "None"}

\* The loads of init_models, in the order of the pipeline(...) calls.
Loads == <<"env_classifier", "ner", "mask_filler", "image_gen">>

\* What the environment decides about init_models: which pipeline(...) call
\* is the first to raise, or "none" when every model loads.  The calls after
\* a failure in the shared try block are never made.
LoadOutcomes == {Loads[i] : i \in 1..Len(Loads)} \cup {"none"}

LoadError == Dialog("error", "Error", "Failed to load models: ", "LoadError")

\* init_models of src/nlp_project.py: the three loads share one try block,
\* so the first failure skips every later assignment; the text-to-image
\* load has a try block of its own, which sets image_gen to None.
init_models_nlp_project(s, failing) ==
    IF failing = "env_classifier" THEN show(s, LoadError)
    ELSE LET s1 == [s EXCEPT !.env_classifier = "pipeline"]
         IN  IF failing = "ner" THEN show(s1, LoadError)
             ELSE LET s2 == [s1 EXCEPT !.ner = "pipeline"]
                  IN  IF failing = "mask_filler" THEN show(s2, LoadError)
                      ELSE [s2 EXCEPT !.mask_filler = "pipeline",
                                      !.image_gen =
                                          IF failing = "image_gen" THEN "None"
                                          ELSE "pipeline"]

\* init_models of src/modern_nlp_app.py: the same, but image_gen is set to
\* None without any load.
init_models_modern_nlp_app(s, failing) ==
    IF failing = "env_classifier" THEN show(s, LoadError)
    ELSE LET s1 == [s EXCEPT !.env_classifier = "pipeline"]
         IN  IF failing = "ner" THEN show(s1, LoadError)
             ELSE LET s2 == [s1 EXCEPT !.ner = "pipeline"]
                  IN  IF failing = "mask_filler" THEN show(s2, LoadError)
                      ELSE [s2 EXCEPT !.mask_filler = "pipeline", !.image_gen = "None"]

init_models(a, s, failing) ==
    IF a = "nlp_project" THEN init_models_nlp_project(s, failing)
    ELSE init_models_modern_nlp_app(s, failing)

\* The result widgets are created empty and disabled, the image label with
\* its placeholder text.
create_ui(s) ==
    [s EXCEPT !.env_results = [state |-> "disabled", text |-> <<>>],
              !.ner_results = [state |-> "disabled", text |-> <<>>],
              !.mask_results = [state |-> "disabled", text |-> <<>>],
              !.image_label = [text |-> <<"Generated image will appear here">>]]

\* The application object before __init__ has assigned anything.
Blank ==
    [env_classifier |-> "unset", ner |-> "unset", mask_filler |-> "unset",
     image_gen |-> "unset",
     env_results |-> [state |-> "none", text |-> <<>>],
     ner_results |-> [state |-> "none", text |-> <<>>],
     mask_results |-> [state |-> "none", text |-> <<>>],
     image_label |-> [text |-> <<>>],
     dialogs |-> <<>>, calls |-> <<>>, raised |-> "none"]

\* ModernNLPApp.__init__: init_models, then create_ui.
construct(a, failing) == create_ui(init_models(a, Blank, failing))

\* --------------------------------------------------------- generate_image

generate_image_modern_nlp_app(s, raw) ==
    LET prompt == strip(get(raw))
        s0 == begin(s)
    IN  IF prompt = <<>>
        THEN show(s0, Dialog("warning", "Warning", "Please enter an image prompt.", "none"))
        ELSE [s0 EXCEPT !.image_label.text =
                  <<"Generating image for: '">> \o prompt
                  \o <<"'", "\n", "\n", "(Image generation placeholder)">>]

\* Mutant of generate_image_nlp_project: the test of image_gen is inverted.
generate_image_nlp_project_inverted(s, raw) ==
    LET prompt == strip(get(raw))
        s0 == begin(s)
    IN  IF prompt = <<>>
        THEN show(s0, Dialog("warning", "Warning", "Please enter an image prompt.", "none"))
        ELSE IF s0.image_gen = "unset"
        THEN [s0 EXCEPT !.raised = "AttributeError"]
        ELSE IF s0.image_gen # "None"
        THEN show(s0, Dialog("info", "Info", "Image generation model not available. This would generate an image based on your prompt.", "none"))
        ELSE [s0 EXCEPT !.image_label.text =
                  <<"Generating image for: '">> \o prompt
                  \o <<"'", "\n", "\n", "(Image generation requires additional setup)">>]

\* In src/nlp_project.py the test of self.image_gen stands outside the try
\* block: when init_models never assigned image_gen, the AttributeError
\* leaves the handler.
generate_image_nlp_project(s, raw) ==
    LET prompt == strip(get(raw))
        s0 == begin(s)
    IN  IF prompt = <<>>
        THEN show(s0, Dialog("warning", "Warning", "Please enter an image prompt.", "none"))
        ELSE IF s0.image_gen = "unset"
        THEN [s0 EXCEPT !.raised = "AttributeError"]
        ELSE IF s0.image_gen = "None"
        THEN show(s0, Dialog("info", "Info", "Image generation model not available. This would generate an image based on your prompt.", "none"))
        ELSE [s0 EXCEPT !.image_label.text =
                  <<"Generating image for: '">> \o prompt
                  \o <<"'", "\n", "\n", "(Image generation requires additional setup)">>]

generate_image(a, s, raw) ==
    IF a = "nlp_project" THEN generate_image_nlp_project(s, raw)
    ELSE generate_image_modern_nlp_app(s, raw)

\* ------------------------------------------------------- extract_entities

\* A call of a pipeline, as the handler's record of it: what was passed and
\* what the pipeline did.
Call(pipeline, text, outcome) == [pipeline |-> pipeline, text |-> text, outcome |-> outcome]

\* Mutant of EntityLines: the entries are numbered from 0.
RECURSIVE EntityLines_from_zero(_, _)
EntityLines_from_zero(i, entities) ==
    IF i > Len(entities) THEN <<>>
    ELSE str(i - 1) \o <<". ">> \o entities[i].entity_group \o <<": ">> \o entities[i].word
         \o <<"\n", "   Confidence: ">> \o Format3f(entities[i].score) \o <<"\n", "\n">>
         \o EntityLines_from_zero(i + 1, entities)

\* The lines of entities[i..], numbered from i.
RECURSIVE EntityLines(_, _)
EntityLines(i, entities) ==
    IF i > Len(entities) THEN <<>>
    ELSE str(i) \o <<". ">> \o entities[i].entity_group \o <<": ">> \o entities[i].word
         \o <<"\n", "   Confidence: ">> \o Format3f(entities[i].score) \o <<"\n", "\n">>
         \o EntityLines(i + 1, entities)

\* The result string extract_entities builds from what self.ner returned.
entities_result(entities) ==
    IF entities # <<>>
    THEN <<"Extracted Entities:\n==================================================\n\n">>
         \o EntityLines(1, entities)
    ELSE <<"No named entities found in the text.">>

\* Mutant of extract_entities: the test for an empty text is missing.
extract_entities_unvalidated(s, raw, outcome) ==
    LET text == strip(get(raw))
        s0 == begin(s)
    IN  IF s0.ner = "unset"
        THEN show(s0, Dialog("error", "Error", "Entity extraction failed: ", "AttributeError"))
        ELSE LET s1 == [s0 EXCEPT !.calls = Append(@, Call("ner", text, outcome))]
             IN  IF outcome.raises
                 THEN show(s1, Dialog("error", "Error", "Entity extraction failed: ",
                                      "PipelineError"))
                 ELSE [s1 EXCEPT !.ner_results =
                           update_results(@, entities_result(outcome.value))]

\* Mutant of extract_entities: the result is rendered in the region of the
\* classifier's tab.
extract_entities_wrong_widget(s, raw, outcome) ==
    LET text == strip(get(raw))
        s0 == begin(s)
    IN  IF text = <<>>
        THEN show(s0, Dialog("warning", "Warning",
                             "Please enter some text to analyze.", "none"))
        ELSE IF s0.ner = "unset"
        THEN show(s0, Dialog("error", "Error", "Entity extraction failed: ", "AttributeError"))
        ELSE LET s1 == [s0 EXCEPT !.calls = Append(@, Call("ner", text, outcome))]
             IN  IF outcome.raises
                 THEN show(s1, Dialog("error", "Error", "Entity extraction failed: ",
                                      "PipelineError"))
                 ELSE [s1 EXCEPT !.env_results =
                           update_results(@, entities_result(outcome.value))]

\* The handler of the Extract Entities button; outcome is what the NER
\* pipeline does if it is called: it raises, or returns outcome.value.
extract_entities(s, raw, outcome) ==
    LET text == strip(get(raw))
        s0 == begin(s)
    IN  IF text = <<>>
        THEN show(s0, Dialog("warning", "Warning",
                             "Please enter some text to analyze.", "none"))
        ELSE IF s0.ner = "unset"
        THEN show(s0, Dialog("error", "Error", "Entity extraction failed: ", "AttributeError"))
        ELSE LET s1 == [s0 EXCEPT !.calls = Append(@, Call("ner", text, outcome))]
             IN  IF outcome.raises
                 THEN show(s1, Dialog("error", "Error", "Entity extraction failed: ",
                                      "PipelineError"))
                 ELSE [s1 EXCEPT !.ner_results =
                           update_results(@, entities_result(outcome.value))]

\* -------------------------------------------------------------- fill_mask

MASK == <<"[", "M", "A", "S", "K", "]">>

\* The lines of predictions[i..], numbered from i.
RECURSIVE PredictionLines(_, _)
PredictionLines(i, predictions) ==
    IF i > Len(predictions) THEN <<>>
    ELSE str(i) \o <<". ">> \o predictions[i].sequence
         \o <<"\n", "   Confidence: ">> \o Format3f(predictions[i].score)
         \o <<"\n", "   Token: ">> \o predictions[i].token_str \o <<"\n", "\n">>
         \o PredictionLines(i + 1, predictions)

\* The result string fill_mask builds from what self.mask_filler returned.
predictions_result(predictions) ==
    <<"Mask Predictions:\n==================================================\n\n">>
    \o PredictionLines(1, predictions)

\* Mutant of fill_mask_try: the header is rendered before the pipeline is
\* called.
fill_mask_try_renders_first(s0, text, outcome) ==
    IF s0.mask_filler = "unset"
    THEN show(s0, Dialog("error", "Error", "Mask filling failed: ", "AttributeError"))
    ELSE LET s1 == [s0 EXCEPT !.calls = Append(@, Call("mask_filler", text, outcome)),
                              !.mask_results =
                                  update_results(@, predictions_result(<<>>))]
         IN  IF outcome.raises
             THEN show(s1, Dialog("error", "Error", "Mask filling failed: ", "PipelineError"))
             ELSE [s1 EXCEPT !.mask_results =
                       update_results(@, predictions_result(outcome.value))]

\* The try block of fill_mask, the same in both files.
fill_mask_try(s0, text, outcome) ==
    IF s0.mask_filler = "unset"
    THEN show(s0, Dialog("error", "Error", "Mask filling failed: ", "AttributeError"))
    ELSE LET s1 == [s0 EXCEPT !.calls = Append(@, Call("mask_filler", text, outcome))]
         IN  IF outcome.raises
             THEN show(s1, Dialog("error", "Error", "Mask filling failed: ", "PipelineError"))
             ELSE [s1 EXCEPT !.mask_results =
                       update_results(@, predictions_result(outcome.value))]

\* Mutant of fill_mask_modern_nlp_app: the test for [MASK] is missing.
fill_mask_modern_nlp_app_unchecked(s, raw, outcome) ==
    LET text == strip(get(raw))
        s0 == begin(s)
    IN  IF text = <<>>
        THEN show(s0, Dialog("warning", "Warning",
                             "Please include [MASK] in your text.", "none"))
        ELSE fill_mask_try(s0, text, outcome)

fill_mask_modern_nlp_app(s, raw, outcome) ==
    LET text == strip(get(raw))
        s0 == begin(s)
    IN  IF text = <<>> \/ ~In(MASK, text)
        THEN show(s0, Dialog("warning", "Warning",
                             "Please include [MASK] in your text.", "none"))
        ELSE fill_mask_try(s0, text, outcome)

\* Mutant of fill_mask_nlp_project: the test for [MASK] is missing.
fill_mask_nlp_project_unchecked(s, raw, outcome) ==
    LET text == strip(get(raw))
        s0 == begin(s)
    IN  IF text = <<>>
        THEN show(s0, Dialog("warning", "Warning",
                             "Please enter text with [MASK] tokens.", "none"))
        ELSE fill_mask_try(s0, text, outcome)

fill_mask_nlp_project(s, raw, outcome) ==
    LET text == strip(get(raw))
        s0 == begin(s)
    IN  IF text = <<>>
        THEN show(s0, Dialog("warning", "Warning",
                             "Please enter text with [MASK] tokens.", "none"))
        ELSE IF ~In(MASK, text)
        THEN show(s0, Dialog("warning", "Warning",
                             "Please include [MASK] tokens in your text.", "none"))
        ELSE fill_mask_try(s0, text, outcome)

fill_mask(a, s, raw, outcome) ==
    IF a = "nlp_project" THEN fill_mask_nlp_project(s, raw, outcome)
    ELSE fill_mask_modern_nlp_app(s, raw, outcome)

\* ------------------------------------------------------------- the inputs

\* What the user may have typed when a button of the application is
\* pressed: nothing, white space only, a text without keyword or mask
\* placeholder, and one with both.
AppTexts ==
    { <<>>,
      <<" ", "\n", " ">>,
      <<"I", " ", "l", "i", "k", "e", " ", "c", "a", "t", "s">>,
      <<"T", "h", "e", " ", "e", "a", "r", "t", "h", " ", "i", "s", " ", "[", "M", "A", "S", "K", "]", ".">> }

\* The words the texts of the classifier's specification are made of: white
\* space, a keyword in both cases, a second keyword, a keyword inside a
\* longer word, the two halves of a two-word keyword (no keyword on their
\* own), and two keywords in one word.
Words ==
    { <<" ">>,
      <<"C", "l", "i", "m", "a", "t", "e", " ">>,
      <<"c", "l", "i", "m", "a", "t", "e">>,
      <<"p", "o", "l", "l", "u", "t", "i", "o", "n", " ">>,
      <<"h", "e", "a", "r", "t", "h">>,
      <<"G", "l", "o", "b", "a", "l", " ">>,
      <<"w", "a", "r", "m", "i", "n", "g">>,
      <<"c", "a", "r", "b", "o", "n", " ", "e", "m", "i", "s", "s", "i", "o", "n", "s", " ">> }

RECURSIVE TextsOf(_)
TextsOf(n) ==
    IF n = 0 THEN {<<>>}
    ELSE LET shorter == TextsOf(n - 1)
         IN  shorter \cup {t \o w : t \in shorter, w \in Words}

\* The scenarios of the specification's section 8.
Scenarios == { <<"C", "l", "i", "m", "a", "t", "e", " ", "c", "h", "a", "n", "g", "e", " ", "a", "n", "d", " ", "p", "o", "l", "l", "u", "t", "i", "o", "n", " ", "a", "f", "f", "e", "c", "t", " ", "b", "i", "o", "d", "i", "v", "e", "r", "s", "i", "t", "y">>, <<"I", " ", "l", "i", "k", "e", " ", "c", "a", "t", "s">> }

ClassifyTexts == TextsOf(MaxWords) \cup Scenarios

\* Sequences of at most n elements of S.
SeqsUpTo(S, n) == UNION {[1..k -> S] : k \in 0..n}

Entities ==
    { [entity_group |-> <<"L", "O", "C">>, word |-> <<"R", "i", "o">>, score |-> 9996],
      [entity_group |-> <<"P", "E", "R">>, word |-> <<"A", "d", "a">>, score |-> 8512] }

Predictions ==
    { [sequence |-> <<"o", "k">>, score |-> 4321, token_str |-> <<"o", "k">>],
      [sequence |-> <<"u", "p">>, score |-> 1234, token_str |-> <<"u", "p">>] }

Raises == [raises |-> TRUE, value |-> <<>>]

Returns(value) == [raises |-> FALSE, value |-> value]

NerOutcomes == {Raises} \cup {Returns(v) : v \in SeqsUpTo(Entities, MaxEntities)}

MaskOutcomes == {Raises} \cup {Returns(v) : v \in SeqsUpTo(Predictions, MaxPredictions)}

\* ------------------------------------------------------ the state machine

\* The application has been constructed: which model fails to load is the
\* environment's choice.
Init ==
    \E failing \in LoadOutcomes :
        /\ app = [a \in Apps |-> construct(a, failing)]
        /\ last = [op |-> "__init__", raw |-> <<>>]

ClassifyEnvironment ==
    \E raw \in AppTexts :
        /\ app' = [a \in Apps |-> classify_environment(app[a], raw)]
        /\ last' = [op |-> "classify_environment", raw |-> raw]

GenerateImage ==
    \E raw \in AppTexts :
        /\ app' = [a \in Apps |-> generate_image(a, app[a], raw)]
        /\ last' = [op |-> "generate_image", raw |-> raw]

ExtractEntities ==
    \E raw \in AppTexts, outcome \in NerOutcomes :
        /\ app' = [a \in Apps |-> extract_entities(app[a], raw, outcome)]
        /\ last' = [op |-> "extract_entities", raw |-> raw]

FillMask ==
    \E raw \in AppTexts, outcome \in MaskOutcomes :
        /\ app' = [a \in Apps |-> fill_mask(a, app[a], raw, outcome)]
        /\ last' = [op |-> "fill_mask", raw |-> raw]

Next == ClassifyEnvironment \/ GenerateImage \/ ExtractEntities \/ FillMask

Spec == Init /\ [][Next]_vars

\* The classifier as a function of the text: the application has been
\* constructed and the user has typed a text of ClassifyTexts into
\* env_text_input; pressing Analyze Text classifies it.
InitClassify ==
    \E failing \in LoadOutcomes, raw \in ClassifyTexts :
        /\ app = [a \in Apps |-> construct(a, failing)]
        /\ last = [op |-> "typed", raw |-> raw]

AnalyzeText ==
    /\ last.op = "typed"
    /\ app' = [a \in Apps |-> classify_environment(app[a], last.raw)]
    /\ last' = [op |-> "classify_environment", raw |-> last.raw]

NextClassify == AnalyzeText

SpecClassify == InitClassify /\ [][NextClassify]_vars

\* ------------------------------------------------- reading a display back

\* Whether the displayed text d has the literal piece label.
HasField(d, label) == \E i \in 1..Len(d) : d[i] = label

\* What the displayed text d shows after the literal piece label, up to the
\* end of the line.
Field(d, label) ==
    LET i == CHOOSE k \in 1..Len(d) : d[k] = label
        stops == {k \in (i + 1)..Len(d) : d[k] = "\n"}
        j == IF stops = {} THEN Len(d) + 1
             ELSE CHOOSE k \in stops : \A m \in stops : k <= m
    IN  SubSeq(d, i + 1, j - 1)

\* The number a sequence of decimal digits (with at most one ".") denotes,
\* the point dropped: "0.33" is 33, "12" is 12.
RECURSIVE Number(_)
Number(digits) ==
    IF digits = <<>> THEN 0
    ELSE LET c == digits[Len(digits)]
             rest == SubSeq(digits, 1, Len(digits) - 1)
         IN  IF c = "." THEN Number(rest)
             ELSE 10 * Number(rest) + ((CHOOSE k \in 1..10 : Digits[k] = c) - 1)

\* The text the last handler worked on.
LastText == strip(get(last.raw))

\* The positions at which sub occurs in text.
Occurrences(sub, text) ==
    {i \in 1..Len(text) : i + Len(sub) - 1 <= Len(text)
                          /\ \A k \in 1..Len(sub) : text[i + k - 1] = sub[k]}

\* The terms of the keyword table that occur in the lower-cased text.
MatchingTerms(text) ==
    LET lowered == lower(text)
    IN  {k \in 1..Len(keywords) : Occurrences(keywords[k], lowered) # {}}

\* matchCount of the specification's section 4.1.
MatchCount(text) == Cardinality(MatchingTerms(text))

Classified == last.op = "classify_environment" /\ LastText # <<>>

\* ------------------------------------------------------------------ claims

\* C1, as stated: for every non-empty trimmed text the display shows
\* 'Keywords found: ' followed by the number of keyword-table terms that
\* occur in the lower-cased text.
C1_AlwaysReportsKeywordsFound ==
    Classified =>
        LET n == MatchCount(LastText)
        IN  \A a \in Apps :
                /\ HasField(app[a].env_results.text, "Keywords found: ")
                /\ Field(app[a].env_results.text, "Keywords found: ") = str(n)

\* C1, amended: matchCount is the number of keyword-table terms that occur
\* in the lower-cased text, each term once however often it occurs; when it
\* is positive the display shows it as 'Keywords found', and when it is zero
\* the display has no 'Keywords found' line.
C1_KeywordsFound ==
    Classified =>
        LET n == MatchCount(LastText)
        IN  \A a \in Apps :
                LET d == app[a].env_results.text
                IN  IF n > 0
                    THEN /\ HasField(d, "Keywords found: ")
                         /\ Field(d, "Keywords found: ") = str(n)
                    ELSE ~HasField(d, "Keywords found: ")

\* A term that occurs twice in the text has been counted once.
C1_Witness ==
    /\ Classified
    /\ Cardinality(Occurrences(keywords[1], lower(LastText))) = 2
    /\ \A a \in Apps : Field(app[a].env_results.text, "Keywords found: ") = <<"1">>

\* C2: whenever matchCount > 0 the label is Environment-related and the
\* confidence shown is min(matchCount / 3, 1.0) to the two decimals of the
\* display: 0.33 for one term, 0.67 for two, 1.00 for three or more.
C2_Confidence ==
    (Classified /\ MatchCount(LastText) > 0) =>
        \A a \in Apps :
            LET d == app[a].env_results.text
                n == MatchCount(LastText)
                shown == Number(Field(d, "Confidence: "))
            IN  /\ Field(d, "Classification: ") = <<"Environment-related">>
                /\ Len(Field(d, "Confidence: ")) = 4
                \* |shown / 100 - n / 3| <= 1/200 below three terms
                /\ n < 3 => /\ 6 * shown - 200 * n <= 3
                            /\ 200 * n - 6 * shown <= 3
                /\ n = 1 => Field(d, "Confidence: ") = <<"0", ".", "3", "3">>
                /\ n = 2 => Field(d, "Confidence: ") = <<"0", ".", "6", "7">>
                /\ n >= 3 => Field(d, "Confidence: ") = <<"1", ".", "0", "0">>

\* A text with more than three terms has been classified with confidence 1.00.
C2_Witness ==
    /\ Classified
    /\ MatchCount(LastText) > 3
    /\ \A a \in Apps :
           Field(app[a].env_results.text, "Confidence: ") = <<"1", ".", "0", "0">>

\* C3: a non-empty trimmed text with none of the keywords is labelled Not
\* Environment-related with confidence 1.00, and no keyword is listed.
C3_Negative ==
    (Classified /\ MatchCount(LastText) = 0) =>
        \A a \in Apps :
            LET d == app[a].env_results.text
            IN  /\ Field(d, "Classification: ") = <<"Not Environment-related">>
                /\ Field(d, "Confidence: ") = <<"1", ".", "0", "0">>
                /\ ~HasField(d, "Environmental keywords detected: ")
                /\ \A k \in 1..Len(keywords) : ~In(keywords[k], d)
                /\ d[Len(d)] = "No environmental keywords detected."

\* 'I like cats' has been classified.
C3_Witness ==
    /\ Classified
    /\ last.raw = <<"I", " ", "l", "i", "k", "e", " ", "c", "a", "t", "s">>
    /\ \A a \in Apps : HasField(app[a].env_results.text, "Classification: ")

Handlers == {"classify_environment", "generate_image", "extract_entities", "fill_mask"}

\* The text the handler of the step works on.
NextText == strip(get(last'.raw))

\* The four display regions of an application.
Displays(s) == <<s.env_results, s.ner_results, s.mask_results, s.image_label>>

\* The handler showed one dialog, of the given kind.
OneDialog(s, kind) == Len(s.dialogs) = 1 /\ s.dialogs[1].kind = kind

\* The handler called a pipeline, which raised.
PipelineRaised(s) == s.calls # <<>> /\ s.calls[1].outcome.raises

\* The handler called a pipeline, which returned.
PipelineReturned(s) == s.calls # <<>> /\ ~s.calls[1].outcome.raises

\* C4: a handler run on an empty or white-space-only input calls no
\* pipeline, shows exactly one warning and leaves all four display regions
\* as they were.
C4_BlankInput ==
    [][ (last'.op \in Handlers /\ NextText = <<>>) =>
            \A a \in Apps :
                /\ app'[a].calls = <<>>
                /\ OneDialog(app'[a], "warning")
                /\ app'[a].raised = "none"
                /\ Displays(app'[a]) = Displays(app[a]) ]_vars

\* White space only has been submitted to generate_image while the other
\* regions showed results.
C4_Witness ==
    /\ last.op = "generate_image"
    /\ last.raw # <<>>
    /\ LastText = <<>>
    /\ \A a \in Apps :
           /\ OneDialog(app[a], "warning")
           /\ app[a].env_results.text # <<>>
           /\ app[a].ner_results.text # <<>>

\* C5: fill_mask on a non-empty trimmed text without the literal [MASK] is
\* rejected with one warning, calls no pipeline and leaves the mask display
\* region as it was.
C5_NoMask ==
    [][ (last'.op = "fill_mask" /\ NextText # <<>> /\ Occurrences(MASK, NextText) = {}) =>
            \A a \in Apps :
                /\ app'[a].calls = <<>>
                /\ OneDialog(app'[a], "warning")
                /\ app'[a].raised = "none"
                /\ app'[a].mask_results = app[a].mask_results ]_vars

\* A text without [MASK] has been rejected while the mask region showed
\* predictions.
C5_Witness ==
    /\ last.op = "fill_mask"
    /\ LastText # <<>>
    /\ Occurrences(MASK, LastText) = {}
    /\ \A a \in Apps :
           /\ OneDialog(app[a], "warning")
           /\ app[a].calls = <<>>
           /\ HasField(app[a].mask_results.text, "   Token: ")

\* C6: when the pipeline called by extract_entities or fill_mask raises, no
\* exception leaves the handler, exactly one error dialog is shown and the
\* display region of the tab holds what it held before the request.
C6_PipelineError ==
    [][ \A a \in Apps :
            (last'.op \in {"extract_entities", "fill_mask"} /\ PipelineRaised(app'[a])) =>
                /\ app'[a].raised = "none"
                /\ OneDialog(app'[a], "error")
                /\ last'.op = "extract_entities" => app'[a].ner_results = app[a].ner_results
                /\ last'.op = "fill_mask" => app'[a].mask_results = app[a].mask_results ]_vars

\* The NER pipeline has raised while the region showed entities.
C6_Witness ==
    /\ last.op = "extract_entities"
    /\ \A a \in Apps :
           /\ PipelineRaised(app[a])
           /\ OneDialog(app[a], "error")
           /\ HasField(app[a].ner_results.text, "   Confidence: ")

\* C7: after a handler has rendered content with update_results, the region
\* holds exactly that content, whatever it held before, and every result
\* region is read-only (disabled) between handlers.
C7_UpdateResults ==
    \A a \in Apps :
        /\ app[a].env_results.state = "disabled"
        /\ app[a].ner_results.state = "disabled"
        /\ app[a].mask_results.state = "disabled"
        /\ Classified => app[a].env_results.text = classification(LastText)
        /\ (last.op = "extract_entities" /\ PipelineReturned(app[a])) =>
               app[a].ner_results.text = entities_result(app[a].calls[1].outcome.value)
        /\ (last.op = "fill_mask" /\ PipelineReturned(app[a])) =>
               app[a].mask_results.text = predictions_result(app[a].calls[1].outcome.value)

\* 'No named entities found' has been rendered: a result shorter than the
\* entity list the region may have held.
C7_Witness ==
    /\ last.op = "extract_entities"
    /\ \A a \in Apps :
           /\ PipelineReturned(app[a])
           /\ app[a].calls[1].outcome.value = <<>>
           /\ app[a].ner_results =
                  [state |-> "disabled", text |-> <<"No named entities found in the text.">>]

\* The label text d is an acknowledgement that embeds the prompt.
Acknowledges(d, prompt) ==
    /\ Len(d) >= Len(prompt) + 2
    /\ d[1] = "Generating image for: '"
    /\ SubSeq(d, 2, Len(prompt) + 1) = prompt
    /\ d[Len(prompt) + 2] = "'"

C9_NoEscape ==
    \A a \in Apps :
        (app[a].mask_filler = "unset" /\ last.op \in Handlers) =>
            /\ app[a].raised = "none"
            /\ \/ app[a].dialogs # <<>>
               \/ last.op \in {"classify_environment", "generate_image"}

\* C10: when the load of the classification pipeline is the one that fails,
\* the failure is reported once, and extract_entities and fill_mask still
\* reach their pipelines on valid input.
C10_Isolation ==
    \A a \in Apps :
        app[a].env_classifier = "unset" =>
            /\ last.op = "__init__" => OneDialog(app[a], "error")
            /\ (last.op = "extract_entities" /\ LastText # <<>>) => app[a].calls # <<>>
            /\ (last.op = "fill_mask" /\ Occurrences(MASK, LastText) # {}) =>
                   app[a].calls # <<>>

\* The handler of the step ended without a dialog and without an exception:
\* the request completed successfully.
Completed(t) == t.dialogs = <<>> /\ t.raised = "none"

\* What generate_image of application a puts in the image label.
ImageText(a, prompt) ==
    <<"Generating image for: '">> \o prompt
    \o <<"'", "\n", "\n",
         IF a = "nlp_project" THEN "(Image generation requires additional setup)"
         ELSE "(Image generation placeholder)">>

\* C11: in every step a request changes no display region but the one of its
\* own tab, and that region holds the result of the request when it
\* completed successfully and what it held before otherwise; so each region
\* always holds the result of the most recent successful request of its tab,
\* or its initial content.
C11_LastResultPerTab ==
    [][ \A a \in Apps :
            LET s == app[a]
                t == app'[a]
            IN  /\ last'.op # "classify_environment" => t.env_results = s.env_results
                /\ last'.op # "generate_image" => t.image_label = s.image_label
                /\ last'.op # "extract_entities" => t.ner_results = s.ner_results
                /\ last'.op # "fill_mask" => t.mask_results = s.mask_results
                /\ last'.op = "classify_environment" =>
                       t.env_results =
                           IF Completed(t)
                           THEN [state |-> "disabled", text |-> classification(NextText)]
                           ELSE s.env_results
                /\ last'.op = "generate_image" =>
                       t.image_label =
                           IF Completed(t) THEN [text |-> ImageText(a, NextText)]
                           ELSE s.image_label
                /\ last'.op = "extract_entities" =>
                       t.ner_results =
                           IF Completed(t)
                           THEN [state |-> "disabled",
                                 text |-> entities_result(t.calls[1].outcome.value)]
                           ELSE s.ner_results
                /\ last'.op = "fill_mask" =>
                       t.mask_results =
                           IF Completed(t)
                           THEN [state |-> "disabled",
                                 text |-> predictions_result(t.calls[1].outcome.value)]
                           ELSE s.mask_results ]_vars

\* A request of the entities tab has failed after an earlier one had
\* succeeded, while the three other regions showed results of their own: the
\* entities region still shows the earlier result.
C11_Witness ==
    /\ last.op = "extract_entities"
    /\ \A a \in Apps :
           /\ ~Completed(app[a])
           /\ HasField(app[a].ner_results.text, "   Confidence: ")
           /\ HasField(app[a].env_results.text, "Classification: ")
           /\ HasField(app[a].mask_results.text, "   Token: ")
    /\ Acknowledges(app["modern_nlp_app"].image_label.text,
                    <<"I", " ", "l", "i", "k", "e", " ", "c", "a", "t", "s">>)

\* ------------------------------------------------- two runs of the classifier

\* At most MaxEarlier requests are made before the two runs are compared.
MaxEarlier == 1

\* What the pipeline that the button op reaches may do; the classifier and
\* the image tab reach none.
Outcomes(op) ==
    CASE op = "extract_entities" -> NerOutcomes
      [] op = "fill_mask" -> MaskOutcomes
      [] OTHER -> {Returns(<<>>)}

\* The command of the button op of the application of the given file.
command(op, file, s, raw, outcome) ==
    CASE op = "classify_environment" -> classify_environment(s, raw)
      [] op = "generate_image" -> generate_image(file, s, raw)
      [] op = "extract_entities" -> extract_entities(s, raw, outcome)
      [] op = "fill_mask" -> fill_mask(file, s, raw, outcome)

\* Two application objects, each of either file and each with model-load
\* outcomes of its own: app[a] is the object of file last.file[a].
InitTwoRuns ==
    \E file \in [Apps -> Apps], failing \in [Apps -> LoadOutcomes] :
        /\ app = [a \in Apps |-> construct(file[a], failing[a])]
        /\ last = [op |-> "__init__", raw |-> <<>>, file |-> file, earlier |-> 0]

\* The object in which requests are made before the two runs are compared;
\* the other is fresh when its text is analyzed.
Used == "nlp_project"

\* An earlier request, of any tab, made in one of the two objects only.
EarlierRequest ==
    /\ last.op \in {"__init__", "earlier"}
    /\ last.earlier < MaxEarlier
    /\ \E op \in Handlers, raw \in AppTexts :
           \E outcome \in Outcomes(op) :
               /\ app' = [app EXCEPT ![Used] = command(op, last.file[Used], @, raw, outcome)]
               /\ last' = [last EXCEPT !.op = "earlier", !.raw = raw, !.earlier = @ + 1]

\* The same text is typed into env_text_input of both objects and Analyze
\* Text is pressed in both.
AnalyzeBoth ==
    /\ last.op \in {"__init__", "earlier"}
    /\ \E raw \in AppTexts :
           /\ app' = [a \in Apps |-> classify_environment(app[a], raw)]
           /\ last' = [last EXCEPT !.op = "classify_environment", !.raw = raw]

NextTwoRuns == EarlierRequest \/ AnalyzeBoth

SpecTwoRuns == InitTwoRuns /\ [][NextTwoRuns]_vars

\* C12: two runs of classify_environment on the same text, in objects whose
\* model handles and earlier requests may differ, call no pipeline, raise
\* nothing, show the same dialogs and render the same result, the one that
\* the text and the keyword table determine; on a blank text neither run
\* renders anything.
C12_Deterministic ==
    [][ last'.op = "classify_environment" =>
            /\ \A a \in Apps :
                   /\ app'[a].calls = <<>>
                   /\ app'[a].raised = "none"
                   /\ NextText # <<>> =>
                          /\ app'[a].env_results.text = classification(NextText)
                          /\ app'[a].dialogs = <<>>
                   /\ NextText = <<>> => app'[a].env_results = app[a].env_results
            /\ \A a, b \in Apps :
                   /\ app'[a].dialogs = app'[b].dialogs
                   /\ NextText # <<>> => app'[a].env_results = app'[b].env_results ]_vars

\* The same text has been classified with the same result in two objects of
\* src/nlp_project.py, one whose classification pipeline failed to load and
\* one whose models all loaded, with an earlier request in one of them only.
C12_Witness ==
    /\ last.op = "classify_environment"
    /\ LastText # <<>>
    /\ last.earlier = 1
    /\ \A a \in Apps : last.file[a] = "nlp_project"
    /\ app["modern_nlp_app"].env_classifier = "unset"
    /\ app["nlp_project"].image_gen = "pipeline"
    /\ app["modern_nlp_app"].ner_results # app["nlp_project"].ner_results
    /\ app["modern_nlp_app"].env_results = app["nlp_project"].env_results
    /\ HasField(app["nlp_project"].env_results.text, "Classification: ")

\* ------------------------------------------- the classifier and letter case

\* The upper-case letter of every lower-case letter.
UpperOf ==
    [c \in {LowerCase[i] : i \in 1..Len(LowerCase)} |->
        UpperCase[CHOOSE i \in 1..Len(LowerCase) : LowerCase[i] = c]]

\* text.upper()
upper(text) == [i \in 1..Len(text) |-> IF text[i] \in DOMAIN UpperOf THEN UpperOf[text[i]] ELSE text[i]]

\* text.swapcase()
swapcase(text) ==
    [i \in 1..Len(text) |->
        IF text[i] \in DOMAIN UpperOf THEN UpperOf[text[i]] ELSE LowerChar(text[i])]

\* Texts that differ from raw in letter case only.
CaseVariants(raw) == {upper(raw), lower(raw), swapcase(raw)}

\* The user has typed a text of ClassifyTexts into env_text_input of one
\* application and a case variant of it into that of the other.
InitCase ==
    \E raw \in ClassifyTexts :
        \E variant \in CaseVariants(raw) :
            /\ app = [a \in Apps |-> construct(a, "none")]
            /\ last = [op |-> "typed", raw |-> raw, variant |-> variant]

\* What is typed into env_text_input of application a.
Typed(a) == IF a = "nlp_project" THEN last.variant ELSE last.raw

AnalyzeVariants ==
    /\ last.op = "typed"
    /\ app' = [a \in Apps |-> classify_environment(app[a], Typed(a))]
    /\ last' = [last EXCEPT !.op = "classify_environment"]

NextCase == AnalyzeVariants

SpecCase == InitCase /\ [][NextCase]_vars

\* The matched keywords a display lists, as shown.
ListedKeywords(d) ==
    IF HasField(d, "Environmental keywords detected: ")
    THEN Field(d, "Environmental keywords detected: ")
    ELSE <<>>

\* C13: two texts that differ in letter case only get the same matchCount,
\* label, confidence and matched-keyword list, and the same dialogs.
C13_CaseInsensitive ==
    last.op = "classify_environment" =>
        LET d == app["modern_nlp_app"].env_results.text
            e == app["nlp_project"].env_results.text
        IN  /\ lower(last.raw) = lower(last.variant)
            /\ app["modern_nlp_app"].dialogs = app["nlp_project"].dialogs
            /\ d = e
            /\ LastText # <<>> =>
                   /\ Field(d, "Classification: ") = Field(e, "Classification: ")
                   /\ Field(d, "Confidence: ") = Field(e, "Confidence: ")
                   /\ HasField(d, "Keywords found: ") = HasField(e, "Keywords found: ")
                   /\ HasField(d, "Keywords found: ") =>
                          Field(d, "Keywords found: ") = Field(e, "Keywords found: ")
                   /\ ListedKeywords(d) = ListedKeywords(e)

\* A text with 'Climate' and its upper-case variant have been classified,
\* both with one keyword found.
C13_Witness ==
    /\ last.op = "classify_environment"
    /\ In(<<"C", "l", "i", "m", "a", "t", "e">>, last.raw)
    /\ In(<<"C", "L", "I", "M", "A", "T", "E">>, last.variant)
    /\ \A a \in Apps : Field(app[a].env_results.text, "Keywords found: ") = <<"1">>

\* The pieces of the displayed text d between the separators sep.
RECURSIVE Split(_, _)
Split(d, sep) ==
    IF \A i \in 1..Len(d) : d[i] # sep THEN <<d>>
    ELSE LET i == CHOOSE k \in 1..Len(d) : d[k] = sep /\ \A m \in 1..(k - 1) : d[m] # sep
         IN  <<SubSeq(d, 1, i - 1)>> \o Split(SubSeq(d, i + 1, Len(d)), sep)

\* The terms of the keyword table with the positions in S, in table order.
RECURSIVE InTableOrder(_)
InTableOrder(S) ==
    IF S = {} THEN <<>>
    ELSE LET k == CHOOSE i \in S : \A j \in S : i <= j
         IN  <<keywords[k]>> \o InTableOrder(S \ {k})

\* The first position at which term occurs in text.
FirstAt(term, text) == CHOOSE i \in Occurrences(term, text) : \A j \in Occurrences(term, text) : i <= j

\* C14: in the positive case the keywords listed are the keyword-table terms
\* that occur in the lower-cased text, each once and in table order
\* whatever their order in the text, and as many as 'Keywords found' says;
\* 'Climate change and pollution affect biodiversity' lists climate,
\* pollution, biodiversity with 3 keywords found.
C14_ListedKeywords ==
    (Classified /\ MatchCount(LastText) > 0) =>
        \A a \in Apps :
            LET d == app[a].env_results.text
                listed == Split(Field(d, "Environmental keywords detected: "), ", ")
            IN  /\ HasField(d, "Environmental keywords detected: ")
                /\ listed = InTableOrder(MatchingTerms(LastText))
                /\ \A i, j \in 1..Len(listed) : i # j => listed[i] # listed[j]
                /\ Len(listed) = Number(Field(d, "Keywords found: "))
                /\ In(<<"b", "i", "o", "d", "i", "v", "e", "r", "s", "i", "t", "y">>, last.raw) =>
                       /\ listed = <<keywords[1], keywords[2], keywords[12]>>
                       /\ Field(d, "Keywords found: ") = <<"3">>

\* A text in which 'pollution' stands before 'climate' has been classified:
\* the list reads climate, pollution.
C14_Witness ==
    /\ Classified
    /\ Occurrences(keywords[1], lower(LastText)) # {}
    /\ Occurrences(keywords[2], lower(LastText)) # {}
    /\ FirstAt(keywords[2], lower(LastText)) < FirstAt(keywords[1], lower(LastText))
    /\ \A a \in Apps :
           Field(app[a].env_results.text, "Environmental keywords detected: ")
               = keywords[1] \o <<", ">> \o keywords[2]

\* What the two applications have in common outside the image tab: the
\* handles of the three pipelines and the three result regions.
Common(s) ==
    <<s.env_classifier, s.ner, s.mask_filler, s.env_results, s.ner_results, s.mask_results>>

\* A dialog without the wording of its message.
Unworded(dialog) == [dialog EXCEPT !.message = "..."]

\* C15, as stated: outside the image-generation feature the applications of
\* the two files behave the same on the same inputs, load outcomes and
\* pipeline outcomes: the same handles and result regions always, and after
\* every handler but generate_image the same warnings and errors, the same
\* pipeline calls and the same exception, if any.
C15_Equivalent ==
    \A a, b \in Apps :
        /\ Common(app[a]) = Common(app[b])
        /\ last.op # "generate_image" =>
               /\ app[a].dialogs = app[b].dialogs
               /\ app[a].calls = app[b].calls
               /\ app[a].raised = app[b].raised

\* C15, amended: the same, except that the warnings with which fill_mask
\* rejects its input are worded differently in the two files (same kind,
\* same title, same number).
C15_EquivalentButWording ==
    \A a, b \in Apps :
        /\ Common(app[a]) = Common(app[b])
        /\ last.op # "generate_image" =>
               /\ app[a].calls = app[b].calls
               /\ app[a].raised = app[b].raised
               /\ Len(app[a].dialogs) = Len(app[b].dialogs)
               /\ \A i \in 1..Len(app[a].dialogs) :
                      LET x == app[a].dialogs[i]
                          y == app[b].dialogs[i]
                      IN  /\ Unworded(x) = Unworded(y)
                          /\ x.message # y.message =>
                                 /\ last.op = "fill_mask"
                                 /\ x.kind = "warning"
                                 /\ Occurrences(MASK, LastText) = {}

\* A text without [MASK] has been submitted to fill_mask after the other
\* tabs had rendered results: both applications warn, each in its own
\* words, and call nothing.
C15_Witness ==
    /\ last.op = "fill_mask"
    /\ LastText # <<>>
    /\ \A a \in Apps :
           /\ OneDialog(app[a], "warning")
           /\ app[a].calls = <<>>
           /\ HasField(app[a].env_results.text, "Classification: ")
           /\ HasField(app[a].ner_results.text, "   Confidence: ")
    /\ app["modern_nlp_app"].dialogs[1].message = "Please include [MASK] in your text."
    /\ app["nlp_project"].dialogs[1].message = "Please include [MASK] tokens in your text."

\* ------------------------------------------------- rendering the entities

\* The NER pipeline returns at most MaxReturned entities here.
MaxReturned == 3

\* The entities the NER pipeline may return, any of them more than once: a
\* third one with a word of two words and a score that rounds to 0.001.
ReturnedEntities ==
    Entities \cup
    { [entity_group |-> <<"O", "R", "G">>, word |-> <<"U", " ", "N">>, score |-> 5] }

EntityOutcomes ==
    {Raises} \cup {Returns(v) : v \in SeqsUpTo(ReturnedEntities, MaxReturned)}

\* Extract Entities is pressed, again and again.
ExtractFrom ==
    \E raw \in AppTexts, outcome \in EntityOutcomes :
        /\ app' = [a \in Apps |-> extract_entities(app[a], raw, outcome)]
        /\ last' = [op |-> "extract_entities", raw |-> raw]

NextEntities == ExtractFrom

SpecEntities == Init /\ [][NextEntities]_vars

\* The entries of a displayed list, each ended by an empty line.
RECURSIVE Entries(_)
Entries(d) ==
    IF d = <<>> THEN <<>>
    ELSE LET ends == {k \in 1..(Len(d) - 1) : d[k] = "\n" /\ d[k + 1] = "\n"}
         IN  IF ends = {} THEN <<d>>
             ELSE LET k == CHOOSE i \in ends : \A j \in ends : i <= j
                  IN  <<SubSeq(d, 1, k - 1)>> \o Entries(SubSeq(d, k + 2, Len(d)))

\* What stands in the entry e before its first ". ".
Numbering(e) ==
    SubSeq(e, 1, (CHOOSE k \in 1..Len(e) : e[k] = ". " /\ \A m \in 1..(k - 1) : e[m] # ". ") - 1)

\* The entry e shows the entity as number i.
ShowsEntity(e, i, entity) ==
    /\ HasField(e, ". ")
    /\ Numbering(e) = str(i)
    /\ Number(Numbering(e)) = i
    /\ Field(e, ". ") = entity.entity_group \o <<": ">> \o entity.word
    /\ HasField(e, "   Confidence: ")
    /\ LET shown == Field(e, "   Confidence: ")
       IN  /\ Len(shown) = 5
           /\ shown[2] = "."
           \* |shown / 1000 - score / 10000| <= 1/2000
           /\ 10 * Number(shown) - entity.score <= 5
           /\ entity.score - 10 * Number(shown) <= 5

\* C16: what extract_entities renders when the pipeline has returned: for a
\* non-empty result a header and one entry per returned entity, numbered
\* 1, 2, ... in the order returned, none dropped, duplicated or reordered;
\* for an empty result the fixed message and no entry.
C16_Rendering ==
    \A a \in Apps :
        (last.op = "extract_entities" /\ PipelineReturned(app[a])) =>
            LET value == app[a].calls[1].outcome.value
                d == app[a].ner_results.text
            IN  IF value = <<>>
                THEN /\ d = <<"No named entities found in the text.">>
                     /\ ~HasField(d, ". ")
                ELSE /\ d[1] = "Extracted Entities:\n==================================================\n\n"
                     /\ LET entries == Entries(Tail(d))
                        IN  /\ Len(entries) = Len(value)
                            /\ \A i \in 1..Len(value) : ShowsEntity(entries[i], i, value[i])

\* Three entities have been rendered, the first and the third the same, in
\* a region that is read back as three entries.
C16_Witness ==
    /\ last.op = "extract_entities"
    /\ \A a \in Apps :
           /\ PipelineReturned(app[a])
           /\ LET value == app[a].calls[1].outcome.value
              IN  /\ Len(value) = 3
                  /\ value[1] = value[3]
                  /\ value[1] # value[2]
           /\ Len(Entries(Tail(app[a].ner_results.text))) = 3

====
